---- MODULE Spec2Model ----
(***************************************************************************)
(* A model of the logg package: the BaseLogger (level threshold, appender  *)
(* list, message channel, signal channel, WaitGroup), its background       *)
(* worker startLogging, and the appenders' WriteMsg/Flush/Destroy.         *)
(*                                                                         *)
(* Caller goroutines and workers advance one statement that touches shared *)
(* state at a time: a channel send or receive, len(msgChan), wg.Add,       *)
(* wg.Wait, wg.Done, close(chan), the fan-out over the appender list.      *)
(* A panic ends the process: no goroutine steps after it.                  *)
(*                                                                         *)
(* The fileLogWriter is also modelled on its own, with its directory tree  *)
(* and a wall clock in days: WriteMsg (level test, needRotate outside the  *)
(* lock, doRotate and the write each under the lock), the archive names    *)
(* doRotate probes, and the deleteOldLog goroutine it starts.              *)
(***************************************************************************)
EXTENDS Integers, Sequences, FiniteSets, TLC

\* ------------------------------------------------------------------ bounds
\* channelLen given to NewLogger
ChannelLen == 2
\* emit calls (Debug/Info/Warn/Error/Fatal) made in one behaviour
MaxMsgs == 3
\* Flush calls made in one behaviour
MaxFlushCalls == 2
\* Close calls made in one behaviour
MaxCloseCalls == 1
\* Async calls made in one behaviour of the unrestricted specification
MaxAsyncCalls == 2
\* appender objects created in one behaviour
MaxAppenders == 2
\* WriteMsg calls made on the file writer in one behaviour
MaxWrites == 3
\* the last day the wall clock reaches; it starts at day 1
MaxDay == 3
\* the highest archive number doRotate probes (999 in the source)
MaxRotateNum == 2
\* days a message may wait between its time stamp and its WriteMsg call
MaxLag == 1

\* --------------------------------------------------------------- constants
LevelFatal == 0
LevelError == 1
LevelWarn == 2
LevelInfo == 3
LevelDebug == 4

\* len("2006-01-02 15:03:04"), the time stamp WriteMsg puts before the text
StampLen == 19
\* time.Time.Day() is the day of the month; the modelled days lie in one
\* month of this length
DaysInMonth == 31

Levels == {LevelFatal, LevelError, LevelWarn, LevelInfo, LevelDebug}

\* caller goroutines
Threads == {"t1", "t2"}

\* names handed to SetAppender: the two registered constructors and one
\* that was never registered
AppenderNames == {"console", "file", "syslog"}
appenderMap == {"console", "file"}

VARIABLES
    level,              \* BaseLogger.level
    async,              \* BaseLogger.async
    msgChan,            \* BaseLogger.msgChan: the buffered messages, oldest first
    msgChanClosed,      \* close(log.msgChan) has run
    singalChan,         \* BaseLogger.singalChan: the buffered tokens
    singalChanClosed,   \* close(log.singalChan) has run
    wg,                 \* BaseLogger.wg: the WaitGroup counter
    appenders,          \* BaseLogger.appenders: indices into sinks
    sinks,              \* every Appender object created so far
    workers,            \* the startLogging goroutines, in spawn order
    threads,            \* the caller goroutines
    panicked,           \* "none", or the panic that ended the process
    emitted,            \* history: every emit call so far, by message id
    enqueued,           \* history: ids in the order their send on msgChan completed
    flushCalls,         \* history: Flush calls begun
    closeCalls,         \* history: Close calls begun
    asyncCalls,         \* history: Async calls made
    f,                  \* the fileLogWriter's exported fields, set by Init
    fileWriter,         \* fileLogWriter.fileWriter: the open file, 0 for nil
    maxSizeCurSize,     \* fileLogWriter.maxSizeCurSize
    dailyOpenDate,      \* fileLogWriter.dailyOpenDate
    fs,                 \* the directory tree: path -> file
    files,              \* every file created so far: content, size, mtime
    now,                \* the wall clock, in days
    writers,            \* the goroutines inside fileLogWriter.WriteMsg
    sweeps,             \* deleteOldLog goroutines started and not yet run
    wlog,               \* history: every WriteMsg call on the file writer
    rotlog,             \* history: every doRotate call
    deleted,            \* history: every file deleteOldLog removed
    walks               \* history: directory walks by deleteOldLog

\* the logger and its goroutines
logVars == <<level, async, msgChan, msgChanClosed, singalChan,
             singalChanClosed, wg, appenders, sinks, workers, threads,
             panicked, emitted, enqueued, flushCalls, closeCalls, asyncCalls>>

\* one file writer used on its own, its directory and its clock
fileVars == <<f, fileWriter, maxSizeCurSize, dailyOpenDate, fs, files, now,
              writers, sweeps, wlog, rotlog, deleted, walks>>

vars == <<logVars, fileVars>>

chanVars == <<msgChan, msgChanClosed, singalChan, singalChanClosed>>
histVars == <<emitted, enqueued, flushCalls, closeCalls, asyncCalls>>

\* ------------------------------------------------------------------ helpers
Range(s) == {s[i] : i \in DOMAIN s}

\* the nil *logMsg a receive on a closed, empty msgChan yields
NilMsg == [id |-> 0, level |-> 0]

\* logMsg{level, msg, when}: the text and time are carried by the id
logMsg(id, lv) == [id |-> id, level |-> lv]

\* a caller goroutine outside every call. arg and err are the arguments and
\* the result of the SetAppender call the goroutine is in.
IdleThread == [pc |-> "idle", msg |-> NilMsg, snap |-> 0, regs |-> <<>>,
               arg |-> <<>>, err |-> ""]

\* a goroutine at the top of startLogging's for loop. from is history: the
\* caller goroutine that sent the token the worker is handling.
NewWorker == [pc |-> "select", msg |-> NilMsg, sg |-> "", gameOver |-> FALSE,
              from |-> ""]

\* no goroutine runs after a panic
Alive == panicked = "none"

\* ---------------------------------------------------------------- appenders
\* The configuration strings handed to Init: the level they set and whether
\* Init accepts them (well-formed JSON; for the file appender, a filename).
Configs == [level : {LevelError, LevelDebug}, ok : BOOLEAN]

\* newConsoleAppender / newFileAppender followed by Init(config).
\* broken: the appender's file no longer takes writes. since, calls, errs,
\* flushed and destroys are history: the id the next emit call will get
\* when the appender is registered, the ids WriteMsg was called with, the
\* ids for which it returned an error, how many of the calls preceded the
\* latest Flush call, and the number of Destroy calls.
NewAppender(name, cfg) ==
    [name |-> name, Level |-> cfg.level, since |-> Len(emitted) + 1,
     calls |-> <<>>, written |-> <<>>, flushed |-> 0, destroys |-> 0,
     broken |-> FALSE, errs |-> <<>>]

\* WriteMsg on s with message m returns an error: the level passes and
\* fileWriter.Write fails
WriteFails(s, m) == m.level <= s.Level /\ s.broken

\* consoleWriter.WriteMsg / fileLogWriter.WriteMsg: nothing is written for
\* a level above the appender's own Level, and a failed Write is returned
\* as the error.
WriteMsg(s, m) ==
    [s EXCEPT !.calls = Append(@, m.id),
              !.written = IF m.level > s.Level \/ s.broken THEN @
                          ELSE Append(@, m.id),
              !.errs = IF WriteFails(s, m) THEN Append(@, m.id) ELSE @]

\* Appender.Flush
AppenderFlush(s) == [s EXCEPT !.flushed = Len(s.calls)]

\* Appender.Destroy
AppenderDestroy(s) == [s EXCEPT !.destroys = @ + 1]

\* a fan-out that stops after the first appender of the list
writeToAppenderFirstOnly(ss, m) ==
    [i \in DOMAIN ss |->
        IF appenders /= <<>> /\ i = appenders[1] THEN WriteMsg(ss[i], m)
                                                 ELSE ss[i]]

\* a fan-out that returns at the first error
writeToAppenderStopsAtError(ss, m) ==
    [i \in DOMAIN ss |->
        IF \E k \in DOMAIN appenders :
              /\ appenders[k] = i
              /\ \A j \in 1..(k - 1) : ~WriteFails(ss[appenders[j]], m)
           THEN WriteMsg(ss[i], m)
        ELSE ss[i]]

\* BaseLogger.writeToAppender: WriteMsg on every appender of the list; an
\* error is printed and the loop goes on
writeToAppender(ss, m) ==
    [i \in DOMAIN ss |->
        IF i \in Range(appenders) THEN WriteMsg(ss[i], m) ELSE ss[i]]

\* the second loop of BaseLogger.flush: Flush on every appender of the list
flushAppenders(ss) ==
    [i \in DOMAIN ss |->
        IF i \in Range(appenders) THEN AppenderFlush(ss[i]) ELSE ss[i]]

\* the Destroy loop of Close and of startLogging's "close" branch
destroyAppenders(ss) ==
    [i \in DOMAIN ss |->
        IF i \in Range(appenders) THEN AppenderDestroy(ss[i]) ELSE ss[i]]

\* ------------------------------------------------------------ file names
\* A path is a sequence of pieces: literal text, a date printed with the
\* layout "2006-01-02", or a number printed with %03d.
Str(x) == [s |-> x, n |-> 0]
Date(d) == [s |-> "2006-01-02", n |-> d]
Num3(k) == [s |-> "%03d", n |-> k]

\* directory pieces and extension pieces
Dirs == {Str("logs/")}
Exts == {Str(".log"), Str(".txt")}

\* strings.HasPrefix, strings.HasSuffix, strings.TrimSuffix
HasPrefix(p, q) == Len(q) <= Len(p) /\ SubSeq(p, 1, Len(q)) = q
HasSuffix(p, q) ==
    Len(q) <= Len(p) /\ SubSeq(p, Len(p) - Len(q) + 1, Len(p)) = q
TrimSuffix(p, q) ==
    IF HasSuffix(p, q) THEN SubSeq(p, 1, Len(p) - Len(q)) ELSE p

\* filepath.Ext, filepath.Base, filepath.Dir (<<>> stands for ".")
Ext(p) == IF p /= <<>> /\ p[Len(p)] \in Exts THEN <<p[Len(p)]>> ELSE <<>>
Base(p) == IF p /= <<>> /\ p[1] \in Dirs THEN Tail(p) ELSE p
Dir(p) == IF p /= <<>> /\ p[1] \in Dirs THEN <<p[1]>> ELSE <<>>

\* time.Time.Day(): the day of the month
Day(d) == ((d - 1) % DaysInMonth) + 1

\* len(when.Format("2006-01-02 15:03:04") + msg + "\n") for a text of n bytes
FormattedLen(n) == StampLen + n + 1

\* an empty file last modified on day d
NewFile(d) == [content |-> <<>>, size |-> 0, mtime |-> d]

\* the values of the "filename" key: in the working directory and in logs/
Filenames == {<<Str("app"), Str(".log")>>,
              <<Str("logs/"), Str("app"), Str(".log")>>}

\* The JSON configurations handed to fileLogWriter.Init: the values the
\* exported fields have after json.Unmarshal over newFileAppender's
\* defaults (MaxSize 0, Daily true, MaxDays 0, Rotate true, LevelDebug).
FileConfigs ==
    [Filename : Filenames, MaxSize : {0, 21, 30}, Daily : BOOLEAN,
     MaxDays : {0, 1}, Rotate : BOOLEAN, Level : {LevelError, LevelDebug}]

\* Files found in the directory tree when the writer is initialised:
\* app-old.log, app.txt, other.log and logs/app-old.log, last modified on
\* day 0, and app_<day 1>_001.log, an archive an earlier run left on day 1.
OtherFiles ==
    << [path |-> <<Str("app"), Str("-old"), Str(".log")>>, mtime |-> 0],
       [path |-> <<Str("app"), Str(".txt")>>, mtime |-> 0],
       [path |-> <<Str("other"), Str(".log")>>, mtime |-> 0],
       [path |-> <<Str("logs/"), Str("app"), Str("-old"), Str(".log")>>,
        mtime |-> 0],
       [path |-> <<Str("app"), Str("_"), Date(1), Str("_"), Num3(1),
                   Str(".log")>>, mtime |-> 1] >>

IdleWriter == [pc |-> "idle", id |-> 0, when |-> 0, len |-> 0]

\* no file writer has been created
NoFileWriter ==
    /\ f = <<>>
    /\ fileWriter = 0
    /\ maxSizeCurSize = 0
    /\ dailyOpenDate = 0
    /\ fs = <<>>
    /\ files = <<>>
    /\ now = 1
    /\ writers = <<>>
    /\ sweeps = 0
    /\ wlog = <<>>
    /\ rotlog = <<>>
    /\ deleted = {}
    /\ walks = 0

\* ------------------------------------------------------------- the logger
\* NewLogger(ChannelLen)
NewLogger ==
    /\ level = LevelDebug
    /\ async = FALSE
    /\ msgChan = <<>>
    /\ msgChanClosed = FALSE
    /\ singalChan = <<>>
    /\ singalChanClosed = FALSE
    /\ wg = 0
    /\ appenders = <<>>
    /\ sinks = <<>>
    /\ workers = <<>>
    /\ threads = [t \in Threads |-> IdleThread]
    /\ panicked = "none"
    /\ emitted = <<>>
    /\ enqueued = <<>>
    /\ flushCalls = 0
    /\ closeCalls = 0
    /\ asyncCalls = 0

\* a logger just constructed; no file writer is used on its own
Init == NewLogger /\ NoFileWriter

\* BaseLogger.SetLevel
SetLevel(v) ==
    /\ Alive
    /\ UNCHANGED fileVars
    /\ level' = v
    /\ UNCHANGED <<async, chanVars, wg, appenders, sinks, workers, threads,
                   panicked, histVars>>

\* a SetAppender without the loop that looks for a registered "console"
SetAppenderErrNoDuplicateTest(name, cfg) ==
    IF name \notin appenderMap THEN "unknow appenderName"
    ELSE IF ~cfg.ok THEN "appender init error"
    ELSE "nil"

\* the error SetAppender returns, "nil" for none
SetAppenderErr(name, cfg) ==
    IF name = "console" /\ \E i \in Range(appenders) : sinks[i].name = name
       THEN "duplicate appenderName"
    ELSE IF name \notin appenderMap THEN "unknow appenderName"
    ELSE IF ~cfg.ok THEN "appender init error"
    ELSE "nil"

\* SetAppender's effect on the list: the three error returns leave it
\* alone, otherwise the new appender goes to the end of the list.
SetAppenderList(name, cfg) ==
    IF SetAppenderErr(name, cfg) /= "nil"
       THEN UNCHANGED <<appenders, sinks>>
    ELSE /\ Len(sinks) < MaxAppenders
         /\ sinks' = Append(sinks, NewAppender(name, cfg))
         /\ appenders' = Append(appenders, Len(sinks) + 1)

\* BaseLogger.SetAppender called while no other goroutine uses the logger
SetAppender(name, cfg) ==
    /\ Alive
    /\ UNCHANGED fileVars
    /\ SetAppenderList(name, cfg)
    /\ UNCHANGED <<level, async, chanVars, wg, workers, threads, panicked,
                   histVars>>

\* the goroutines that hold log.lock
LockHolders == {t \in Threads : threads[t].pc \in {"setAppender",
                                                    "setAppenderRet"}}

\* SetAppender: log.lock.Lock(). regs is history: the list found.
SetAppenderLock(t, name, cfg) ==
    /\ Alive
    /\ UNCHANGED fileVars
    /\ threads[t].pc = "idle"
    /\ LockHolders = {}
    /\ Len(sinks) < MaxAppenders \/ SetAppenderErr(name, cfg) /= "nil"
    /\ threads' = [threads EXCEPT ![t].pc = "setAppender",
                                  ![t].arg = <<name, cfg>>,
                                  ![t].regs = appenders]
    /\ UNCHANGED <<level, async, chanVars, wg, appenders, sinks, workers,
                   panicked, histVars>>

\* SetAppender between Lock and the return statement
SetAppenderBody(t) ==
    /\ Alive
    /\ UNCHANGED fileVars
    /\ threads[t].pc = "setAppender"
    /\ SetAppenderList(threads[t].arg[1], threads[t].arg[2])
    /\ threads' = [threads EXCEPT
                     ![t].pc = "setAppenderRet",
                     ![t].err = SetAppenderErr(threads[t].arg[1],
                                               threads[t].arg[2])]
    /\ UNCHANGED <<level, async, chanVars, wg, workers, panicked, histVars>>

\* SetAppender: the deferred log.lock.Unlock() and the return
SetAppenderReturn(t) ==
    /\ Alive
    /\ UNCHANGED fileVars
    /\ threads[t].pc = "setAppenderRet"
    /\ threads' = [threads EXCEPT ![t] = IdleThread]
    /\ UNCHANGED <<level, async, chanVars, wg, appenders, sinks, workers,
                   panicked, histVars>>

\* The file under file appender s stops taking writes (its disk is full or
\* gone): from now on fileWriter.Write returns an error. The console
\* appender's WriteMsg always returns nil.
SinkFails(s) ==
    /\ Alive
    /\ UNCHANGED fileVars
    /\ s \in DOMAIN sinks
    /\ sinks[s].name = "file"
    /\ ~sinks[s].broken
    /\ sinks' = [sinks EXCEPT ![s].broken = TRUE]
    /\ UNCHANGED <<level, async, chanVars, wg, appenders, workers, threads,
                   panicked, histVars>>

\* BaseLogger.Async: no check that a worker already runs
Async ==
    /\ Alive
    /\ UNCHANGED fileVars
    /\ asyncCalls < MaxAsyncCalls
    /\ asyncCalls' = asyncCalls + 1
    /\ async' = TRUE
    /\ wg' = wg + 1
    /\ workers' = Append(workers, NewWorker)
    /\ UNCHANGED <<level, chanVars, appenders, sinks, threads, panicked,
                   emitted, enqueued, flushCalls, closeCalls>>

\* an emit without the threshold test
DroppedNever(lv) == FALSE

\* The threshold test of Fatal/Error/Warn/Info/Debug: the message is
\* dropped when its level is above log.level.
Dropped(lv) == lv > level

\* Fatal/Error/Warn/Info/Debug up to the send in writeMsg: a message above
\* the threshold returns at once; in async mode the goroutine goes on to
\* the send on msgChan; otherwise it fans out inline.
Emit(t, lv) ==
    /\ Alive
    /\ UNCHANGED fileVars
    /\ threads[t].pc = "idle"
    /\ Len(emitted) < MaxMsgs
    /\ emitted' = Append(emitted, [level |-> lv, T |-> level, from |-> t])
    /\ LET m == logMsg(Len(emitted) + 1, lv) IN
       IF Dropped(lv)
          THEN UNCHANGED <<threads, sinks>>
       ELSE IF async
          THEN /\ threads' = [threads EXCEPT ![t].pc = "send", ![t].msg = m]
               /\ UNCHANGED sinks
       ELSE /\ sinks' = writeToAppender(sinks, m)
            /\ UNCHANGED threads
    /\ UNCHANGED <<level, async, chanVars, wg, appenders, workers, panicked,
                   enqueued, flushCalls, closeCalls, asyncCalls>>

\* a channel whose send never blocks
HasRoomAlways(ch) == TRUE

\* room in the buffered channel for one more send
HasRoom(ch) == Len(ch) < ChannelLen

\* writeMsg: log.msgChan <- m. Blocks while the buffer is full; panics on a
\* closed channel.
EmitSend(t) ==
    /\ Alive
    /\ UNCHANGED fileVars
    /\ threads[t].pc = "send"
    /\ IF msgChanClosed
          THEN /\ panicked' = "send on closed msgChan"
               /\ UNCHANGED <<msgChan, enqueued, threads>>
       ELSE /\ HasRoom(msgChan)
            /\ msgChan' = Append(msgChan, threads[t].msg)
            /\ enqueued' = Append(enqueued, threads[t].msg.id)
            /\ threads' = [threads EXCEPT ![t] = IdleThread]
            /\ UNCHANGED panicked
    /\ UNCHANGED <<level, async, msgChanClosed, singalChan, singalChanClosed,
                   wg, appenders, sinks, workers, emitted, flushCalls,
                   closeCalls, asyncCalls>>

\* a caller goroutine inside Flush or Close
InControl(t) == threads[t].pc \in {"flushSend", "flushWait", "flushAdd",
                                   "closeSend", "closeWait", "closeMsgChan",
                                   "closeSingalChan"}

\* BaseLogger.Flush up to its send: in async mode the goroutine goes on to
\* send the "flush" token; otherwise it runs log.flush() inline (msgChan is
\* empty when no worker was ever started, so only the appenders' Flush runs).
\* snap and regs are history: the number of completed enqueues and the
\* appender list when the call began.
Flush(t) ==
    /\ Alive
    /\ UNCHANGED fileVars
    /\ threads[t].pc = "idle"
    /\ flushCalls < MaxFlushCalls
    /\ flushCalls' = flushCalls + 1
    /\ IF async
          THEN /\ threads' = [threads EXCEPT ![t].pc = "flushSend",
                                             ![t].snap = Len(enqueued),
                                             ![t].regs = appenders]
               /\ UNCHANGED sinks
       ELSE /\ sinks' = flushAppenders(sinks)
            /\ UNCHANGED threads
    /\ UNCHANGED <<level, async, chanVars, wg, appenders, workers, panicked,
                   emitted, enqueued, closeCalls, asyncCalls>>

\* log.singalChan <- token (capacity 1): blocks while a token is buffered,
\* panics on a closed channel. The sender kept with the token is history.
SendSignal(t, token, next) ==
    /\ IF singalChanClosed
          THEN /\ panicked' = "send on closed singalChan"
               /\ UNCHANGED <<singalChan, threads>>
       ELSE /\ Len(singalChan) < 1
            /\ singalChan' = Append(singalChan, [sg |-> token, from |-> t])
            /\ threads' = [threads EXCEPT ![t].pc = next]
            /\ UNCHANGED panicked
    /\ UNCHANGED <<level, async, msgChan, msgChanClosed, singalChanClosed,
                   wg, appenders, sinks, workers, histVars>>

\* Flush: log.singalChan <- "flush"
FlushSend(t) ==
    /\ Alive
    /\ UNCHANGED fileVars
    /\ threads[t].pc = "flushSend"
    /\ SendSignal(t, "flush", "flushWait")

\* a Wait that does not wait
WaitReturnsAtOnce == TRUE

\* wg.Wait(): returns once the counter is zero
WaitReturns == wg = 0

\* Flush: log.wg.Wait()
FlushWait(t) ==
    /\ Alive
    /\ UNCHANGED fileVars
    /\ threads[t].pc = "flushWait"
    /\ WaitReturns
    /\ threads' = [threads EXCEPT ![t].pc = "flushAdd"]
    /\ UNCHANGED <<level, async, chanVars, wg, appenders, sinks, workers,
                   panicked, histVars>>

\* Flush: log.wg.Add(1), then return
FlushAdd(t) ==
    /\ Alive
    /\ UNCHANGED fileVars
    /\ threads[t].pc = "flushAdd"
    /\ wg' = wg + 1
    /\ threads' = [threads EXCEPT ![t] = IdleThread]
    /\ UNCHANGED <<level, async, chanVars, appenders, sinks, workers,
                   panicked, histVars>>

\* BaseLogger.Close up to its first blocking statement: in async mode the
\* goroutine goes on to send the "close" token; otherwise it flushes and
\* destroys the appenders and clears the list inline. Both go on to close
\* the two channels.
Close(t) ==
    /\ Alive
    /\ UNCHANGED fileVars
    /\ threads[t].pc = "idle"
    /\ closeCalls < MaxCloseCalls
    /\ closeCalls' = closeCalls + 1
    /\ IF async
          THEN /\ threads' = [threads EXCEPT ![t].pc = "closeSend",
                                             ![t].snap = Len(enqueued),
                                             ![t].regs = appenders]
               /\ UNCHANGED <<sinks, appenders>>
       ELSE /\ sinks' = destroyAppenders(flushAppenders(sinks))
            /\ appenders' = <<>>
            /\ threads' = [threads EXCEPT ![t].pc = "closeMsgChan",
                                          ![t].snap = Len(enqueued),
                                          ![t].regs = appenders]
    /\ UNCHANGED <<level, async, chanVars, wg, workers, panicked, emitted,
                   enqueued, flushCalls, asyncCalls>>

\* Close: log.singalChan <- "close"
CloseSend(t) ==
    /\ Alive
    /\ UNCHANGED fileVars
    /\ threads[t].pc = "closeSend"
    /\ SendSignal(t, "close", "closeWait")

\* Close: log.wg.Wait()
CloseWait(t) ==
    /\ Alive
    /\ UNCHANGED fileVars
    /\ threads[t].pc = "closeWait"
    /\ WaitReturns
    /\ threads' = [threads EXCEPT ![t].pc = "closeMsgChan"]
    /\ UNCHANGED <<level, async, chanVars, wg, appenders, sinks, workers,
                   panicked, histVars>>

\* Close: close(log.msgChan); closing a closed channel panics
CloseMsgChan(t) ==
    /\ Alive
    /\ UNCHANGED fileVars
    /\ threads[t].pc = "closeMsgChan"
    /\ IF msgChanClosed
          THEN /\ panicked' = "close of closed channel"
               /\ UNCHANGED <<msgChanClosed, threads>>
       ELSE /\ msgChanClosed' = TRUE
            /\ threads' = [threads EXCEPT ![t].pc = "closeSingalChan"]
            /\ UNCHANGED panicked
    /\ UNCHANGED <<level, async, msgChan, singalChan, singalChanClosed, wg,
                   appenders, sinks, workers, histVars>>

\* Close: close(log.singalChan), then return
CloseSingalChan(t) ==
    /\ Alive
    /\ UNCHANGED fileVars
    /\ threads[t].pc = "closeSingalChan"
    /\ IF singalChanClosed
          THEN /\ panicked' = "close of closed channel"
               /\ UNCHANGED <<singalChanClosed, threads>>
       ELSE /\ singalChanClosed' = TRUE
            /\ threads' = [threads EXCEPT ![t] = IdleThread]
            /\ UNCHANGED panicked
    /\ UNCHANGED <<level, async, msgChan, msgChanClosed, singalChan, wg,
                   appenders, sinks, workers, histVars>>

\* ------------------------------------------------------------- the worker
\* a receive that takes the newest buffered value
chanRecvNewest(ch) == ch[Len(ch)]

\* the value a receive takes from a non-empty buffered channel: the oldest
chanRecv(ch) == Head(ch)

\* startLogging, select case msg := <-log.msgChan. A closed, empty channel
\* yields nil, and msg.when then dereferences nil.
WorkerRecvMsg(w) ==
    /\ Alive
    /\ UNCHANGED fileVars
    /\ workers[w].pc = "select"
    /\ IF msgChan /= <<>>
          THEN /\ workers' = [workers EXCEPT ![w].pc = "write",
                                             ![w].msg = chanRecv(msgChan)]
               /\ msgChan' = Tail(msgChan)
               /\ UNCHANGED panicked
       ELSE /\ msgChanClosed
            /\ panicked' = "nil pointer dereference"
            /\ UNCHANGED <<workers, msgChan>>
    /\ UNCHANGED <<level, async, msgChanClosed, singalChan, singalChanClosed,
                   wg, appenders, sinks, threads, histVars>>

\* startLogging: log.writeToAppender(msg...); log.logMsgPool.Put(msg)
WorkerWrite(w) ==
    /\ Alive
    /\ UNCHANGED fileVars
    /\ workers[w].pc = "write"
    /\ sinks' = writeToAppender(sinks, workers[w].msg)
    /\ workers' = [workers EXCEPT ![w].pc = "select", ![w].msg = NilMsg]
    /\ UNCHANGED <<level, async, chanVars, wg, appenders, threads, panicked,
                   histVars>>

\* startLogging, select case sg := <-log.singalChan, entering log.flush().
\* A closed, empty channel yields "".
WorkerRecvSignal(w) ==
    /\ Alive
    /\ UNCHANGED fileVars
    /\ workers[w].pc = "select"
    /\ IF singalChan /= <<>>
          THEN /\ workers' = [workers EXCEPT
                                ![w].pc = "drainCheck",
                                ![w].sg = Head(singalChan).sg,
                                ![w].from = Head(singalChan).from]
               /\ singalChan' = Tail(singalChan)
       ELSE /\ singalChanClosed
            /\ workers' = [workers EXCEPT ![w].pc = "drainCheck", ![w].sg = ""]
            /\ UNCHANGED singalChan
    /\ UNCHANGED <<level, async, msgChan, msgChanClosed, singalChanClosed,
                   wg, appenders, sinks, threads, panicked, histVars>>

\* a flush without its drain loop
AfterLenTestNoDrain == "sinkFlush"

\* the pc after flush's test len(log.msgChan) > 0
AfterLenTest == IF Len(msgChan) > 0 THEN "drainRecv" ELSE "sinkFlush"

\* flush: if len(log.msgChan) > 0
WorkerDrainCheck(w) ==
    /\ Alive
    /\ UNCHANGED fileVars
    /\ workers[w].pc = "drainCheck"
    /\ workers' = [workers EXCEPT ![w].pc = AfterLenTest]
    /\ UNCHANGED <<level, async, chanVars, wg, appenders, sinks, threads,
                   panicked, histVars>>

\* flush: m := <-log.msgChan (blocks on an empty open channel; nil from a
\* closed one, and m.when then dereferences nil)
WorkerDrainRecv(w) ==
    /\ Alive
    /\ UNCHANGED fileVars
    /\ workers[w].pc = "drainRecv"
    /\ IF msgChan /= <<>>
          THEN /\ workers' = [workers EXCEPT ![w].pc = "drainWrite",
                                             ![w].msg = chanRecv(msgChan)]
               /\ msgChan' = Tail(msgChan)
               /\ UNCHANGED panicked
       ELSE /\ msgChanClosed
            /\ panicked' = "nil pointer dereference"
            /\ UNCHANGED <<workers, msgChan>>
    /\ UNCHANGED <<level, async, msgChanClosed, singalChan, singalChanClosed,
                   wg, appenders, sinks, threads, histVars>>

\* flush: log.writeToAppender(m...); log.logMsgPool.Put(m); continue
WorkerDrainWrite(w) ==
    /\ Alive
    /\ UNCHANGED fileVars
    /\ workers[w].pc = "drainWrite"
    /\ sinks' = writeToAppender(sinks, workers[w].msg)
    /\ workers' = [workers EXCEPT ![w].pc = "drainCheck", ![w].msg = NilMsg]
    /\ UNCHANGED <<level, async, chanVars, wg, appenders, threads, panicked,
                   histVars>>

\* flush: for _, out := range log.appenders { out.Flush() }
WorkerSinkFlush(w) ==
    /\ Alive
    /\ UNCHANGED fileVars
    /\ workers[w].pc = "sinkFlush"
    /\ sinks' = flushAppenders(sinks)
    /\ workers' = [workers EXCEPT
                     ![w].pc = IF workers[w].sg = "close" THEN "destroy"
                                                           ELSE "done"]
    /\ UNCHANGED <<level, async, chanVars, wg, appenders, threads, panicked,
                   histVars>>

\* startLogging, sg == "close": Destroy every appender, log.appenders = nil,
\* gameOver = true
WorkerDestroy(w) ==
    /\ Alive
    /\ UNCHANGED fileVars
    /\ workers[w].pc = "destroy"
    /\ sinks' = destroyAppenders(sinks)
    /\ appenders' = <<>>
    /\ workers' = [workers EXCEPT ![w].pc = "done", ![w].gameOver = TRUE]
    /\ UNCHANGED <<level, async, chanVars, wg, threads, panicked, histVars>>

\* a startLogging that leaves out log.wg.Done()
WorkerDoneForgets(w) ==
    /\ Alive
    /\ UNCHANGED fileVars
    /\ workers[w].pc = "done"
    /\ workers' = [workers EXCEPT ![w].pc = "loop", ![w].sg = "",
                                  ![w].from = ""]
    /\ UNCHANGED <<level, async, chanVars, wg, appenders, sinks, threads,
                   panicked, histVars>>

\* startLogging: log.wg.Done(); a counter below zero panics
WorkerDone(w) ==
    /\ Alive
    /\ UNCHANGED fileVars
    /\ workers[w].pc = "done"
    /\ IF wg = 0
          THEN /\ panicked' = "negative WaitGroup counter"
               /\ UNCHANGED <<wg, workers>>
       ELSE /\ wg' = wg - 1
            /\ workers' = [workers EXCEPT ![w].pc = "loop", ![w].sg = "",
                                          ![w].from = ""]
            /\ UNCHANGED panicked
    /\ UNCHANGED <<level, async, chanVars, appenders, sinks, threads,
                   histVars>>

\* a loop that goes back to the select also after "close"
WorkerLoopNeverBreaks(w) ==
    /\ Alive
    /\ UNCHANGED fileVars
    /\ workers[w].pc = "loop"
    /\ workers' = [workers EXCEPT ![w].pc = "select"]
    /\ UNCHANGED <<level, async, chanVars, wg, appenders, sinks, threads,
                   panicked, histVars>>

\* startLogging: if gameOver { break }, else back to the select
WorkerLoop(w) ==
    /\ Alive
    /\ UNCHANGED fileVars
    /\ workers[w].pc = "loop"
    /\ workers' = [workers EXCEPT
                     ![w].pc = IF workers[w].gameOver THEN "exited"
                                                       ELSE "select"]
    /\ UNCHANGED <<level, async, chanVars, wg, appenders, sinks, threads,
                   panicked, histVars>>

\* startLogging handling a message taken by the select
WorkerMsgStep(w) ==
    \/ WorkerRecvMsg(w)
    \/ WorkerWrite(w)

\* startLogging handling a token up to wg.Done and the gameOver test,
\* without the "close" branch
WorkerSignalStep(w) ==
    \/ WorkerRecvSignal(w)
    \/ WorkerDrainCheck(w)
    \/ WorkerDrainRecv(w)
    \/ WorkerDrainWrite(w)
    \/ WorkerSinkFlush(w)
    \/ WorkerDone(w)
    \/ WorkerLoop(w)

\* one statement of one startLogging goroutine
WorkerStep(w) ==
    \/ WorkerMsgStep(w)
    \/ WorkerSignalStep(w)
    \/ WorkerDestroy(w)

\* one statement of goroutine t inside Flush
FlushStep(t) ==
    \/ FlushSend(t)
    \/ FlushWait(t)
    \/ FlushAdd(t)

\* one statement of goroutine t inside Close, after the async test
CloseStep(t) ==
    \/ CloseSend(t)
    \/ CloseWait(t)
    \/ CloseMsgChan(t)
    \/ CloseSingalChan(t)

\* one statement of caller goroutine t that is inside an emit, Flush or Close
CallerStep(t) ==
    \/ EmitSend(t)
    \/ FlushStep(t)
    \/ CloseStep(t)

\* --------------------------------------------------------- the file writer
\* fileSuffix and fileNameOnly as fileLogWriter.Init computes them
fileSuffix ==
    IF Ext(f.Filename) = <<>> THEN <<Str(".log")>> ELSE Ext(f.Filename)
fileNameOnly == TrimSuffix(f.Filename, Ext(f.Filename))

\* fileLogWriter.Init(config) in a directory tree holding OtherFiles:
\* startLogging creates the live file, initFd takes its size and the day
\* of the wall clock.
FileInit(cfg) ==
    /\ f = cfg
    /\ files = [i \in 1..(Len(OtherFiles) + 1) |->
                  IF i <= Len(OtherFiles) THEN NewFile(OtherFiles[i].mtime)
                  ELSE NewFile(1)]
    /\ fs = [p \in {OtherFiles[i].path : i \in DOMAIN OtherFiles}
                     \cup {cfg.Filename} |->
               IF p = cfg.Filename THEN Len(OtherFiles) + 1
               ELSE CHOOSE i \in DOMAIN OtherFiles : OtherFiles[i].path = p]
    /\ fileWriter = Len(OtherFiles) + 1
    /\ maxSizeCurSize = 0
    /\ now = 1
    /\ dailyOpenDate = Day(1)
    /\ writers = [t \in Threads |-> IdleWriter]
    /\ sweeps = 0
    /\ wlog = <<>>
    /\ rotlog = <<>>
    /\ deleted = {}
    /\ walks = 0

\* a logger never used, and one file writer initialised with any of the
\* configurations
InitFile == NewLogger /\ \E cfg \in FileConfigs : FileInit(cfg)

\* Midnight passes. A deleteOldLog goroutine that doRotate started has run
\* by then: the scheduler does not hold a runnable goroutine back for a day.
Tick ==
    /\ Alive
    /\ now < MaxDay
    /\ sweeps = 0
    /\ now' = now + 1
    /\ UNCHANGED <<logVars, f, fileWriter, maxSizeCurSize, dailyOpenDate, fs,
                   files, writers, sweeps, wlog, rotlog, deleted, walks>>

\* a rotation test that lets the file reach MaxSize and one write more
needRotateAboveOnly(size, day) ==
    \/ (f.MaxSize > 0 /\ maxSizeCurSize > f.MaxSize)
    \/ (f.Daily /\ day /= dailyOpenDate)

\* fileLogWriter.needRotate
needRotate(size, day) ==
    \/ (f.MaxSize > 0 /\ maxSizeCurSize >= f.MaxSize)
    \/ (f.Daily /\ day /= dailyOpenDate)

\* the time stamps a message handed to WriteMsg can carry: writeMsg took
\* it from the wall clock before the call, at most MaxLag days earlier
Stamps == {d \in 1..now : d >= now - MaxLag}

\* WriteMsg up to the first Lock: the level test, the formatting and the
\* rotation test. The entry added to wlog is history: what the call found.
FileWriteMsg(t, when, n, lv) ==
    /\ Alive
    /\ writers[t].pc = "idle"
    /\ Len(wlog) < MaxWrites
    /\ LET id == Len(wlog) + 1
           call == [when |-> when, day |-> Day(when), level |-> lv,
                    len |-> FormattedLen(n), cur0 |-> maxSizeCurSize,
                    open0 |-> dailyOpenDate, file0 |-> fileWriter,
                    rot |-> "none", file |-> 0, pos |-> 0, cur |-> 0,
                    live |-> FALSE]
       IN  IF lv > f.Level
              THEN /\ wlog' = Append(wlog, [call EXCEPT !.rot = "filtered"])
                   /\ UNCHANGED writers
           ELSE /\ wlog' = Append(wlog, call)
                /\ writers' =
                     [writers EXCEPT ![t] =
                        [pc |-> IF f.Rotate
                                   /\ needRotate(FormattedLen(n), Day(when))
                                   THEN "rotate" ELSE "write",
                         id |-> id, when |-> when,
                         len |-> FormattedLen(n)]]
    /\ UNCHANGED <<logVars, f, fileWriter, maxSizeCurSize, dailyOpenDate, fs,
                   files, now, sweeps, rotlog, deleted, walks>>

\* the archive names doRotate builds from logTime
NumberedName(logTime, num) ==
    fileNameOnly \o <<Str("_"), Date(logTime), Str("_"), Num3(num)>>
                 \o fileSuffix
DatedName(logTime) ==
    fileNameOnly \o <<Str("_"), Date(logTime)>> \o fileSuffix

\* a probe that always settles on number 1
ProbeAlwaysFirst(logTime, num) == 1

\* doRotate's loop over num: the first number from num on whose name does
\* not exist, 0 when every name up to MaxRotateNum exists
RECURSIVE Probe(_, _)
Probe(logTime, num) ==
    IF num > MaxRotateNum THEN 0
    ELSE IF NumberedName(logTime, num) \notin DOMAIN fs THEN num
    ELSE Probe(logTime, num + 1)

\* the name doRotate renames the live file to, <<>> when it finds none
ArchiveName(logTime) ==
    IF f.MaxSize > 0
       THEN IF Probe(logTime, 1) = 0 THEN <<>>
            ELSE NumberedName(logTime, Probe(logTime, 1))
    ELSE IF DatedName(logTime) \in DOMAIN fs THEN <<>>
    ELSE DatedName(logTime)

\* WriteMsg: f.Lock(); doRotate(when); f.Unlock(). doRotate returns an
\* error and changes nothing when the live path is gone or no archive name
\* is free; otherwise it renames the live file, creates and opens a new
\* one (initFd: size and wall-clock day) and starts deleteOldLog. The entry
\* added to rotlog is history.
FileRotate(t) ==
    /\ Alive
    /\ writers[t].pc = "rotate"
    /\ LET w == writers[t]
           fName == ArchiveName(w.when)
           ok == f.Filename \in DOMAIN fs /\ fName /= <<>>
           fresh == Len(files) + 1
       IN  /\ rotlog' = Append(rotlog,
                 [id |-> w.id, ok |-> ok, name |-> fName,
                  needed |-> needRotate(w.len, Day(w.when)),
                  from |-> fileWriter, at |-> now,
                  free |-> {k \in 1..MaxRotateNum :
                              NumberedName(w.when, k) \notin DOMAIN fs}])
           /\ wlog' = [wlog EXCEPT ![w.id].rot = IF ok THEN "ok" ELSE "err"]
           /\ IF ok
                 THEN /\ fs' = [p \in (DOMAIN fs \ {f.Filename})
                                        \cup {fName, f.Filename} |->
                                  IF p = fName THEN fs[f.Filename]
                                  ELSE IF p = f.Filename THEN fresh
                                  ELSE fs[p]]
                      /\ files' = Append(files, NewFile(now))
                      /\ fileWriter' = fresh
                      /\ maxSizeCurSize' = 0
                      /\ dailyOpenDate' = Day(now)
                      /\ sweeps' = sweeps + 1
              ELSE UNCHANGED <<fs, files, fileWriter, maxSizeCurSize,
                               dailyOpenDate, sweeps>>
    /\ writers' = [writers EXCEPT ![t].pc = "write"]
    /\ UNCHANGED <<logVars, f, now, deleted, walks>>

\* WriteMsg: f.Lock(); f.fileWriter.Write(msg); f.maxSizeCurSize += len(msg);
\* f.Unlock(); return
FileWrite(t) ==
    /\ Alive
    /\ writers[t].pc = "write"
    /\ LET w == writers[t] IN
       /\ files' = [files EXCEPT ![fileWriter] =
                      [content |-> Append(@.content, w.id),
                       size |-> @.size + w.len, mtime |-> now]]
       /\ maxSizeCurSize' = maxSizeCurSize + w.len
       /\ wlog' = [wlog EXCEPT ![w.id].file = fileWriter,
                               ![w.id].pos = Len(files[fileWriter].content) + 1,
                               ![w.id].cur = maxSizeCurSize + w.len,
                               ![w.id].live = /\ f.Filename \in DOMAIN fs
                                              /\ fs[f.Filename] = fileWriter]
    /\ writers' = [writers EXCEPT ![t] = IdleWriter]
    /\ UNCHANGED <<logVars, f, fileWriter, dailyOpenDate, fs, now, sweeps,
                   rotlog, deleted, walks>>

\* the paths filepath.Walk(dir) visits that are files
Walk(dir) == {p \in DOMAIN fs : dir = <<>> \/ HasPrefix(p, dir)}

\* a sweep that leaves out the test of the modification time
OldLogsAnyAge ==
    {p \in Walk(Dir(f.Filename)) :
        /\ HasPrefix(Base(p), fileNameOnly)
        /\ HasSuffix(Base(p), fileSuffix)}

\* the files deleteOldLog removes: modified more than MaxDays days ago,
\* with a base name that starts with fileNameOnly and ends with fileSuffix
OldLogs ==
    {p \in Walk(Dir(f.Filename)) :
        /\ files[fs[p]].mtime < now - f.MaxDays
        /\ HasPrefix(Base(p), fileNameOnly)
        /\ HasSuffix(Base(p), fileSuffix)}

\* the goroutine go f.deleteOldLog() started by doRotate
deleteOldLog ==
    /\ Alive
    /\ sweeps > 0
    /\ sweeps' = sweeps - 1
    /\ IF f.MaxDays <= 0
          THEN UNCHANGED <<fs, deleted, walks>>
       ELSE /\ walks' = walks + 1
            /\ fs' = [p \in DOMAIN fs \ OldLogs |-> fs[p]]
            /\ deleted' = deleted \cup
                 {[path |-> p, mtime |-> files[fs[p]].mtime, at |-> now] :
                    p \in OldLogs}
    /\ UNCHANGED <<logVars, f, fileWriter, maxSizeCurSize, dailyOpenDate,
                   files, now, writers, wlog, rotlog>>

\* ---------------------------------------------------------- specifications
\* levels the emit calls of the concurrency specifications use
EmitLevels == {LevelError, LevelInfo}

\* Any call from any goroutine at any time. The claims are settled under
\* the scenarios below, each a restriction of this relation.
Next ==
    \/ \E n \in AppenderNames, c \in Configs : SetAppender(n, c)
    \/ \E v \in Levels : SetLevel(v)
    \/ Async
    \/ \E t \in Threads, lv \in Levels : Emit(t, lv)
    \/ \E t \in Threads : Flush(t)
    \/ \E t \in Threads : Close(t)
    \/ \E t \in Threads : CallerStep(t)
    \/ \E w \in DOMAIN workers : WorkerStep(w)

Spec == Init /\ [][Next]_vars

\* no Flush or Close call is in flight
NoControlInFlight == \A u \in Threads : ~InControl(u)

\* configurations that Init accepts and that leave the level at LevelDebug
DebugConfigs == {c \in Configs : c.ok /\ c.level = LevelDebug}

\* One worker, and one Flush or Close in flight at a time: the appenders
\* are registered first, Async is called once, then the caller goroutines
\* emit, Flush and Close, a Flush or Close beginning only when no other is
\* in flight.
NextOne ==
    \/ \E n \in appenderMap, c \in DebugConfigs : (~async /\ SetAppender(n, c))
    \/ (~async /\ Async)
    \/ \E t \in Threads : (async /\ Emit(t, LevelInfo))
    \/ \E t \in Threads : (async /\ NoControlInFlight /\ Flush(t))
    \/ \E t \in Threads : (async /\ NoControlInFlight /\ Close(t))
    \/ \E t \in Threads : CallerStep(t)
    \/ \E w \in DOMAIN workers : WorkerStep(w)

SpecOne == Init /\ [][NextOne]_vars

\* The engine started and never closed: file appenders are registered,
\* Async is called once, then both caller goroutines emit and one of them
\* also calls Flush.
NextOpen ==
    \/ \E c \in DebugConfigs : (~async /\ SetAppender("file", c))
    \/ (~async /\ Async)
    \/ \E t \in Threads : (async /\ Emit(t, LevelInfo))
    \/ (async /\ NoControlInFlight /\ Flush("t1"))
    \/ \E t \in Threads : (EmitSend(t) \/ FlushStep(t))
    \/ \E w \in DOMAIN workers : (WorkerMsgStep(w) \/ WorkerSignalStep(w))

\* The Go scheduler runs a runnable goroutine: the worker is not starved.
FairOpen ==
    /\ Init
    /\ [][NextOpen]_vars
    /\ WF_vars(\E w \in DOMAIN workers : WorkerStep(w))

\* As NextOne, with Async callable again while a worker runs.
NextMany ==
    \/ \E c \in DebugConfigs : (~async /\ SetAppender("console", c))
    \/ Async
    \/ \E t \in Threads : (async /\ Emit(t, LevelInfo))
    \/ \E t \in Threads : (async /\ NoControlInFlight /\ Flush(t))
    \/ \E t \in Threads : (async /\ NoControlInFlight /\ Close(t))
    \/ \E t \in Threads : CallerStep(t)
    \/ \E w \in DOMAIN workers : WorkerStep(w)

SpecMany == Init /\ [][NextMany]_vars

\* thresholds handed to SetLevel
SetLevels == {LevelWarn, LevelDebug}

\* levels the emit calls of NextLevels use: below, at and above LevelWarn
FilterLevels == {LevelFatal, LevelWarn, LevelDebug}

\* Level filtering: file appenders with either floor are registered, then
\* one goroutine emits below, at and above the thresholds, before and after
\* Async, while the threshold is changed at any time; no Flush, no Close.
NextLevels ==
    \/ \E c \in Configs :
          (emitted = <<>> /\ ~async /\ SetAppender("file", c))
    \/ \E v \in SetLevels : SetLevel(v)
    \/ (~async /\ Async)
    \/ \E lv \in FilterLevels : Emit("t1", lv)
    \/ EmitSend("t1")
    \/ \E w \in DOMAIN workers : WorkerMsgStep(w)

SpecLevels == Init /\ [][NextLevels]_vars

\* The tests' script, run by one goroutine: SetAppender calls, Async, any
\* number of emits up to MaxMsgs, Flush, Close.
NextScript ==
    \/ \E n \in appenderMap, c \in DebugConfigs : (~async /\ SetAppender(n, c))
    \/ (~async /\ Async)
    \/ \E lv \in EmitLevels : (async /\ flushCalls = 0 /\ Emit("t1", lv))
    \/ (async /\ flushCalls = 0 /\ Flush("t1"))
    \/ (flushCalls = 1 /\ closeCalls = 0 /\ Close("t1"))
    \/ CallerStep("t1")
    \/ \E w \in DOMAIN workers : WorkerStep(w)

\* The Go scheduler runs every runnable goroutine: neither the worker nor
\* the caller is starved.
FairScript ==
    /\ Init
    /\ [][NextScript]_vars
    /\ WF_vars(\E w \in DOMAIN workers : WorkerStep(w))
    /\ WF_vars(NextScript)

\* Synchronous mode: Async is never called. One goroutine registers
\* appenders, emits and flushes in any order, then calls Close once.
NextSync ==
    \/ \E n \in AppenderNames, c \in Configs :
          (closeCalls = 0 /\ SetAppender(n, c))
    \/ \E lv \in EmitLevels : (closeCalls = 0 /\ Emit("t1", lv))
    \/ (closeCalls = 0 /\ Flush("t1"))
    \/ (closeCalls = 0 /\ Close("t1"))
    \/ CloseMsgChan("t1")
    \/ CloseSingalChan("t1")

SpecSync == Init /\ [][NextSync]_vars

\* text lengths and levels handed to the file writer
TextLens == {1}
WriteLevels == {LevelInfo}

\* the configurations of NextFileRace: size and day rotation in the working
\* directory, no retention sweep
RaceConfigs ==
    {c \in FileConfigs : /\ c.Rotate /\ c.Level = LevelDebug
                         /\ c.MaxDays = 0
                         /\ c.Filename = <<Str("app"), Str(".log")>>}

\* a logger never used, and one file writer initialised for NextFileRace
InitFileRace == NewLogger /\ \E cfg \in RaceConfigs : FileInit(cfg)

\* Two goroutines call WriteMsg on one file writer at the same time, as
\* two producers of a synchronous logger do.
NextFileRace ==
    \/ \E t \in Threads, when \in Stamps, n \in TextLens, lv \in WriteLevels :
          FileWriteMsg(t, when, n, lv)
    \/ \E t \in Threads : FileRotate(t)
    \/ \E t \in Threads : FileWrite(t)
    \/ deleteOldLog
    \/ Tick

SpecFileRace == InitFileRace /\ [][NextFileRace]_vars

\* Fan-out with failing appenders: appenders are registered, then one
\* goroutine emits before and after Async, and at any time the file under
\* a file appender may stop taking writes; no Flush, no Close.
NextFanout ==
    \/ \E n \in appenderMap, c \in DebugConfigs :
          (emitted = <<>> /\ ~async /\ SetAppender(n, c))
    \/ \E s \in 1..MaxAppenders : SinkFails(s)
    \/ (~async /\ Async)
    \/ \E lv \in EmitLevels : Emit("t1", lv)
    \/ EmitSend("t1")
    \/ \E w \in DOMAIN workers : WorkerMsgStep(w)

SpecFanout == Init /\ [][NextFanout]_vars

\* Registration: the caller goroutines call SetAppender with any name and
\* configuration, one statement at a time, and emit in synchronous mode.
NextSet ==
    \/ \E t \in Threads, n \in AppenderNames, c \in Configs :
          SetAppenderLock(t, n, c)
    \/ \E t \in Threads : SetAppenderBody(t)
    \/ \E t \in Threads : SetAppenderReturn(t)
    \/ Emit("t1", LevelInfo)

SpecSet == Init /\ [][NextSet]_vars

\* Concurrent control calls: Async is called once, then both caller
\* goroutines call Flush and Close at any time, also while the other is
\* inside one.
NextRace ==
    \/ (~async /\ Async)
    \/ \E t \in Threads : (async /\ Flush(t))
    \/ \E t \in Threads : (async /\ Close(t))
    \/ \E t \in Threads : (FlushStep(t) \/ CloseStep(t))
    \/ \E w \in DOMAIN workers : (WorkerSignalStep(w) \/ WorkerDestroy(w))

SpecRace == Init /\ [][NextRace]_vars

\* Registration while the logger is in use: one goroutine calls
\* SetAppender, one statement at a time, while the other emits, in
\* synchronous mode and after Async, and calls Close.
NextLock ==
    \/ \E n \in appenderMap, c \in DebugConfigs : SetAppenderLock("t1", n, c)
    \/ SetAppenderBody("t1")
    \/ SetAppenderReturn("t1")
    \/ (~async /\ Async)
    \/ Emit("t2", LevelInfo)
    \/ Close("t2")
    \/ (EmitSend("t2") \/ CloseStep("t2"))
    \/ \E w \in DOMAIN workers : WorkerStep(w)

SpecLock == Init /\ [][NextLock]_vars

\* One goroutine writes to the file writer, one call after the other,
\* while days pass and the deleteOldLog goroutines run.
NextFile ==
    \/ \E when \in Stamps, n \in TextLens, lv \in WriteLevels :
          FileWriteMsg("t1", when, n, lv)
    \/ FileRotate("t1")
    \/ FileWrite("t1")
    \/ deleteOldLog
    \/ Tick

SpecFile == InitFile /\ [][NextFile]_vars


\* ------------------------------------------------------------------ claims
\* ids whose send on msgChan completed before goroutine t's Flush or Close
\* call began
SnapIds(t) == {enqueued[i] : i \in 1..threads[t].snap}

\* WriteMsg has been called on appender s with message id
Received(s, id) == id \in Range(sinks[s].calls)

\* every message enqueued before t's call began has reached every appender
\* that was registered when the call began
SnapDelivered(t) ==
    \A id \in SnapIds(t) : \A s \in Range(threads[t].regs) : Received(s, id)

ClosePcs == {"closeSend", "closeWait", "closeMsgChan", "closeSingalChan"}

\* C1: with one worker and no other Flush or Close in flight, whenever the
\* worker is about to Destroy the appenders or has destroyed one of them or
\* cleared the list, every message enqueued before the Close call began has
\* been handed to WriteMsg of every registered appender.
C1_CloseDrainsFirst ==
    \A t \in Threads :
        (/\ threads[t].pc \in ClosePcs
         /\ \/ \E w \in DOMAIN workers : workers[w].pc = "destroy"
            \/ \E s \in Range(threads[t].regs) : sinks[s].destroys > 0
            \/ appenders = <<>>)
        => SnapDelivered(t)

\* C1 witness: a Close that began with two messages already enqueued waits
\* while the worker has destroyed the registered appenders, each of which
\* received both messages.
C1_Witness ==
    \E t \in Threads :
        /\ threads[t].pc = "closeWait"
        /\ threads[t].snap >= 2
        /\ threads[t].regs /= <<>>
        /\ \A s \in Range(threads[t].regs) :
              sinks[s].destroys = 1 /\ Len(sinks[s].calls) >= 2

\* C2: with one worker and no other Flush or Close in flight, wg.Wait in
\* Flush returns only when every message enqueued before the call began has
\* been handed to every registered appender and each appender's Flush was
\* called after those writes; and whenever no Flush or Close is in flight
\* and Close was never called the counter is back at 1, so the next
\* Flush or Close blocks again.
C2_FlushWaits ==
    /\ \A t \in Threads :
          threads[t].pc = "flushAdd" =>
             \A s \in Range(threads[t].regs) : \A id \in SnapIds(t) :
                \E k \in 1..sinks[s].flushed : sinks[s].calls[k] = id
    /\ (async /\ NoControlInFlight /\ closeCalls = 0) => wg = 1

\* C2 witness: the second Flush of a behaviour has returned from wg.Wait
\* with two messages enqueued before it began.
C2_Witness ==
    \E t \in Threads :
        /\ threads[t].pc = "flushAdd"
        /\ flushCalls = 2
        /\ threads[t].snap >= 2
        /\ threads[t].regs /= <<>>

\* s is a prefix of q
IsPrefix(s, q) == Len(s) <= Len(q) /\ \A i \in DOMAIN s : s[i] = q[i]

\* C3: with one worker, every appender's WriteMsg calls are a prefix of the
\* enqueue order (nothing twice, nothing skipped, whether taken by the
\* select or by flush's loop), and two messages of one producer reach the
\* appender in the order the producer emitted them.
C3_FifoExactlyOnce ==
    \A s \in DOMAIN sinks :
        /\ IsPrefix(sinks[s].calls, enqueued)
        /\ \A i, j \in DOMAIN sinks[s].calls :
              (i < j /\ emitted[sinks[s].calls[i]].from
                        = emitted[sinks[s].calls[j]].from)
              => sinks[s].calls[i] < sinks[s].calls[j]

\* C3 witness: the worker holds a message it took in flush's loop after an
\* appender already received two, the enqueue order differing from the
\* order in which the emit calls began.
C3_Witness ==
    /\ \E w \in DOMAIN workers : workers[w].pc = "drainWrite"
    /\ \E s \in DOMAIN sinks : Len(sinks[s].calls) >= 2
    /\ \E i, j \in DOMAIN enqueued : i < j /\ enqueued[i] > enqueued[j]

\* the worker has handled the close token and reads no channel again
WorkerStopped(w) ==
    workers[w].gameOver /\ workers[w].pc \in {"loop", "exited"}

\* every appender has been flushed after its last write and destroyed once,
\* the list is cleared and the worker reads no channel again
ClosedDown ==
    /\ appenders = <<>>
    /\ \A s \in DOMAIN sinks :
          sinks[s].destroys = 1 /\ sinks[s].flushed = Len(sinks[s].calls)
    /\ \A w \in DOMAIN workers : WorkerStopped(w)

\* C4: with one worker and no other Flush or Close in flight, wg.Wait in
\* Close returns only when the messages enqueued before the call have been
\* delivered, every appender was flushed and destroyed exactly once, the
\* list is cleared and the worker reads no channel again; a channel is
\* closed only in such a state.
C4_CloseWaits ==
    /\ \A t \in Threads :
          threads[t].pc \in {"closeMsgChan", "closeSingalChan"}
          => SnapDelivered(t) /\ ClosedDown
    /\ (msgChanClosed \/ singalChanClosed) => ClosedDown

\* C4 witness: Close has returned (both channels closed, caller idle) after
\* two appenders received two messages each.
C4_Witness ==
    /\ msgChanClosed /\ singalChanClosed
    /\ NoControlInFlight
    /\ Len(sinks) = 2
    /\ \A s \in DOMAIN sinks : Len(sinks[s].calls) >= 2

\* C5: no emit call panics.
C5_EmitNeverPanics == panicked /= "send on closed msgChan"

\* message id is on its way: in a producer's pending send, in msgChan, or
\* in the worker's hands
InFlight(id) ==
    \/ \E t \in Threads : threads[t].pc = "send" /\ threads[t].msg.id = id
    \/ \E i \in DOMAIN msgChan : msgChan[i].id = id
    \/ \E w \in DOMAIN workers : workers[w].msg.id = id

\* WriteMsg has been called with message id on every appender of the list
Delivered(id) == \A s \in Range(appenders) : Received(s, id)

\* C6: with the engine started and not closed, msgChan never holds more
\* than ChannelLen messages; a producer whose send finds the buffer full
\* stays at the send; every emitted message that passed the threshold is in
\* flight or delivered; and under a fair worker every enqueued message is
\* eventually delivered to every appender.
C6_BackPressure ==
    /\ [](Len(msgChan) <= ChannelLen)
    /\ [][\A t \in Threads :
            (threads[t].pc = "send" /\ Len(msgChan) >= ChannelLen)
            => threads'[t] = threads[t]]_vars
    /\ [](\A id \in DOMAIN emitted :
            emitted[id].level <= emitted[id].T
            => InFlight(id) \/ Delivered(id))
    /\ \A id \in 1..MaxMsgs :
          (id \in Range(enqueued)) ~> Delivered(id)

\* C6 witness: the buffer is full and a producer is blocked at its send
\* while the worker, with an appender registered, has not yet taken a
\* message.
C6_Witness ==
    /\ Len(msgChan) = ChannelLen
    /\ \E t \in Threads : threads[t].pc = "send"
    /\ appenders /= <<>>
    /\ \E w \in DOMAIN workers : workers[w].pc = "select"

\* the startLogging goroutines that have not returned
LiveWorkers == {w \in DOMAIN workers : workers[w].pc /= "exited"}

\* C7: at most one background worker exists per logger in every reachable
\* state, also when Async is called more than once.
C7_AtMostOneWorker == Cardinality(LiveWorkers) <= 1

\* C8: for every emit at level L under threshold T and every appender with
\* floor F: the message is written only if L <= T and L <= F; a message
\* with L > T is neither enqueued nor handed to any appender; a WriteMsg
\* call writes exactly when L <= F; and a message with L <= T reaches
\* every appender registered before the emit once it is no longer in
\* flight. So such an appender persists it iff L <= T and L <= F.
C8_LevelFilter ==
    \A id \in DOMAIN emitted : \A s \in DOMAIN sinks :
        LET L == emitted[id].level
            T == emitted[id].T
            F == sinks[s].Level
            written == id \in Range(sinks[s].written)
        IN  /\ written => (L <= T /\ L <= F)
            /\ L > T => /\ ~InFlight(id)
                        /\ id \notin Range(enqueued)
                        /\ ~Received(s, id)
            /\ Received(s, id) => (written <=> L <= F)
            /\ (L <= T /\ sinks[s].since <= id /\ ~InFlight(id))
               => Received(s, id)

\* C8 witness: one appender with floor LevelError has seen all three
\* cases: a message passed to WriteMsg and not written, a message dropped
\* by the threshold after SetLevel, and one written.
C8_Witness ==
    \E s \in DOMAIN sinks : \E a, b, c \in DOMAIN emitted :
        /\ sinks[s].Level = LevelError
        /\ a < b /\ b < c
        /\ emitted[a].level <= emitted[a].T /\ emitted[a].level > LevelError
        /\ Received(s, a) /\ a \notin Range(sinks[s].written)
        /\ emitted[b].level > emitted[b].T
        /\ ~Received(s, b)
        /\ emitted[c].level <= emitted[c].T /\ emitted[c].level <= LevelError
        /\ c \in Range(sinks[s].written)

\* Close has returned to the script's caller
ScriptDone ==
    /\ closeCalls = 1
    /\ threads["t1"].pc = "idle"
    /\ msgChanClosed /\ singalChanClosed

\* C9 as stated: the script Async, N emits, Flush, Close always completes,
\* nothing panics, the WaitGroup counter is never negative, and every
\* worker goroutine has exited when Close returns.
C9_ScriptCompletesWorkerExited ==
    /\ <>ScriptDone
    /\ [](panicked = "none" /\ wg >= 0)
    /\ [](ScriptDone => \A w \in DOMAIN workers : workers[w].pc = "exited")

\* C9 amended: the script always completes, nothing panics, the counter is
\* never negative, and when Close returns the worker has handled the close
\* token and reads no channel again: it has returned or only has the
\* gameOver test left, and it eventually returns.
C9_ScriptCompletes ==
    /\ <>ScriptDone
    /\ [](panicked = "none" /\ wg >= 0)
    /\ [](ScriptDone => \A w \in DOMAIN workers : WorkerStopped(w))
    /\ <>[](\A w \in DOMAIN workers : workers[w].pc = "exited")

\* C9 witness: Close has returned after more emits than the channel holds,
\* all of them delivered to a registered appender, and the worker has not
\* yet returned.
C9_Witness ==
    /\ ScriptDone
    /\ Len(emitted) > ChannelLen
    /\ sinks /= <<>>
    /\ \A s \in DOMAIN sinks : Len(sinks[s].calls) = Len(emitted)
    /\ \E w \in DOMAIN workers : workers[w].pc = "loop"

\* the ids a..b in increasing order
IdsFrom(a, b) == [i \in 1..(IF b >= a THEN b - a + 1 ELSE 0) |-> a + i - 1]

\* C10: in synchronous mode with a single producer, whenever the producer
\* is outside an emit call every appender has received exactly the
\* messages emitted since it was registered, once each and in emission
\* order; no appender is destroyed before Close, and once Close has run its
\* loop every appender was destroyed exactly once and the list is empty.
C10_SyncInOrder ==
    /\ \A s \in DOMAIN sinks :
          /\ sinks[s].calls = IdsFrom(sinks[s].since, Len(emitted))
          /\ sinks[s].written =
                SelectSeq(sinks[s].calls,
                          LAMBDA id : emitted[id].level <= sinks[s].Level)
          /\ sinks[s].destroys = (IF closeCalls = 0 THEN 0 ELSE 1)
    /\ closeCalls = 0 => Range(appenders) = DOMAIN sinks
    /\ closeCalls > 0 => appenders = <<>>

\* C10 witness: Close has returned after MaxMsgs emits, two appenders
\* registered before the first emit, each destroyed once.
C10_Witness ==
    /\ msgChanClosed /\ singalChanClosed
    /\ threads["t1"].pc = "idle"
    /\ Len(emitted) = MaxMsgs
    /\ Len(sinks) = 2
    /\ \A s \in DOMAIN sinks :
          sinks[s].since = 1 /\ Len(sinks[s].calls) = MaxMsgs
                             /\ sinks[s].destroys = 1

\* the WriteMsg calls on the file writer that have written their message
Written == {i \in DOMAIN wlog : wlog[i].file /= 0}

\* the day of call c's message differs from the day the writer recorded
DayChanged(c) == f.Daily /\ c.day /= c.open0

\* the doRotate call made for WriteMsg call i
RotOf(i) == CHOOSE r \in DOMAIN rotlog : rotlog[r].id = i

RotationsBefore(i) == {r \in DOMAIN rotlog : rotlog[r].ok /\ rotlog[r].id < i}

\* the date on which the file that was open when call i began was opened:
\* by the latest rotation before it, or by Init on day 1
OpenedOn(i) ==
    IF RotationsBefore(i) = {} THEN 1
    ELSE rotlog[CHOOSE r \in RotationsBefore(i) :
                   \A q \in RotationsBefore(i) : q <= r].at

\* C12: maxsize = 0, daily and rotate enabled. A message stamped with day
\* D+1 that finds the live file opened on day D is written after a
\* rotation, the archive is named <base>_<date D><ext>, and the message is
\* the first content of a new live file at the original path.
C12_DayRotationNamedForOldDay ==
    \A i \in Written :
        LET c == wlog[i]
            D == OpenedOn(i)
        IN  (f.Rotate /\ f.Daily /\ f.MaxSize = 0 /\ c.when = D + 1)
            => /\ c.rot = "ok"
               /\ rotlog[RotOf(i)].name = DatedName(D)
               /\ DatedName(D) \in DOMAIN fs => fs[DatedName(D)] = c.file0
               /\ c.file /= c.file0 /\ c.live /\ c.pos = 1

\* the number of WriteMsg calls on appender s with message id
Calls(s, id) == Cardinality({k \in DOMAIN sinks[s].calls : sinks[s].calls[k] = id})

\* C13: no emit panics, and once a message is no longer in flight WriteMsg
\* has been called with it exactly once on every appender registered
\* before the emit, whether or not WriteMsg returned an error on another
\* appender of the list (or on this one).
C13_FanOutIndependent ==
    /\ panicked = "none"
    /\ \A id \in DOMAIN emitted : \A s \in DOMAIN sinks :
          /\ Calls(s, id) <= 1
          /\ (sinks[s].since <= id /\ ~InFlight(id)) => Calls(s, id) = 1
          /\ id \in Range(sinks[s].errs) => Calls(s, id) = 1

\* C13 witness: for message a the second appender returned an error and
\* the first wrote it; for a later message b the first appender returned
\* an error and the second was still called.
C13_Witness ==
    /\ Len(appenders) >= 2
    /\ \E a, b \in DOMAIN emitted :
          /\ a < b
          /\ a \in Range(sinks[appenders[1]].written)
          /\ a \in Range(sinks[appenders[2]].errs)
          /\ b \in Range(sinks[appenders[1]].errs)
          /\ Calls(appenders[2], b) = 1

\* C14: when SetAppender is about to return, it returns an error exactly
\* when the name is "console" and the list it found held a "console"
\* appender, or the name has no constructor, or Init failed; with an error
\* the list is as it was found; without one the list is the list found
\* plus one new appender of that name at its end. The list holds the
\* appenders in the order of their registration.
C14_SetAppender ==
    /\ \A t \in Threads :
          threads[t].pc = "setAppenderRet" =>
             LET name == threads[t].arg[1]
                 cfg == threads[t].arg[2]
                 found == threads[t].regs
                 n == Len(found)
             IN  /\ threads[t].err /= "nil"
                    <=> \/ /\ name = "console"
                           /\ \E i \in Range(found) : sinks[i].name = "console"
                        \/ name \notin {"console", "file"}
                        \/ ~cfg.ok
                 /\ threads[t].err /= "nil" => appenders = found
                 /\ threads[t].err = "nil"
                    => /\ Len(appenders) = n + 1
                       /\ SubSeq(appenders, 1, n) = found
                       /\ appenders[n + 1] = Len(sinks)
                       /\ appenders[n + 1] \notin Range(found)
                       /\ sinks[appenders[n + 1]].name = name
    /\ \A i, j \in DOMAIN appenders :
          i < j => /\ appenders[i] < appenders[j]
                   /\ sinks[appenders[i]].since <= sinks[appenders[j]].since

\* C14 witness: a second "console" registration is about to return its
\* error after a "file" appender was added behind the first "console" and
\* a message was fanned out.
C14_Witness ==
    \E t \in Threads :
        /\ threads[t].pc = "setAppenderRet"
        /\ threads[t].arg[1] = "console"
        /\ threads[t].err = "duplicate appenderName"
        /\ Len(appenders) = 2
        /\ sinks[appenders[1]].name = "console"
        /\ sinks[appenders[2]].name = "file"
        /\ sinks[appenders[1]].calls /= <<>>

\* the token goroutine t sent is still buffered or in the worker's hands
TokenPending(t) ==
    \/ \E i \in DOMAIN singalChan : singalChan[i].from = t
    \/ \E w \in DOMAIN workers : workers[w].from = t

\* C16: with Flush and Close called concurrently, wg.Wait returns to a
\* caller only after the worker has handled that caller's own token
\* (through wg.Done), and the WaitGroup counter never goes below zero.
C16_ConcurrentControl ==
    /\ wg >= 0
    /\ panicked /= "negative WaitGroup counter"
    /\ \A t \in Threads :
          threads[t].pc \in {"flushAdd", "closeMsgChan", "closeSingalChan"}
          => ~TokenPending(t)

\* a worker goroutine takes a step that ranges over log.appenders or
\* assigns it
WorkerUsesList ==
    \E w \in DOMAIN workers :
        /\ workers[w].pc \in {"write", "drainWrite", "sinkFlush", "destroy"}
        /\ workers'[w] /= workers[w]

\* a caller goroutine takes a step that ranges over log.appenders or
\* assigns it without taking log.lock: the inline fan-out of an emit, the
\* inline flush, the inline half of Close
CallerUsesList ==
    ~async /\ \/ emitted' /= emitted
              \/ flushCalls' /= flushCalls
              \/ closeCalls' /= closeCalls

\* C19: no goroutine ranges over the appender list or assigns it while
\* another holds log.lock in SetAppender, and the list changes only in a
\* step of the goroutine that holds the lock.
C19_ListUnderLock ==
    [][/\ (WorkerUsesList \/ CallerUsesList) => LockHolders = {}
       /\ appenders' /= appenders
          => \E t \in LockHolders : threads'[t].pc = "setAppenderRet"]_vars

\* the base name of path p starts with the writer's base name and ends
\* with its extension
MatchesPattern(p) ==
    /\ HasPrefix(Base(p), Base(fileNameOnly))
    /\ HasSuffix(Base(p), fileSuffix)

\* the doRotate calls that renamed the live file
Rotations == {r \in DOMAIN rotlog : rotlog[r].ok}

\* C15: a path leaves the directory tree only if its name matches the
\* writer's pattern and its file was modified more than maxdays days before,
\* so every other file stays and keeps its content; with maxdays = 0 nothing
\* is deleted and no directory is walked; a deleteOldLog goroutine is
\* started only by a doRotate that renamed the live file; and the write
\* that follows the rotation can go on while that goroutine has not run.
C15_RetentionSweep ==
    /\ [](/\ \A d \in deleted :
                MatchesPattern(d.path) /\ d.mtime < d.at - f.MaxDays
          /\ f.MaxDays = 0 => (deleted = {} /\ walks = 0)
          /\ sweeps + walks <= Cardinality(Rotations)
          /\ \A i \in DOMAIN OtherFiles :
                (~MatchesPattern(OtherFiles[i].path) /\ fileWriter /= 0)
                => /\ OtherFiles[i].path \in DOMAIN fs
                   /\ fs[OtherFiles[i].path] = i
          /\ \A t \in Threads : writers[t].pc = "write" => ENABLED FileWrite(t))
    /\ [][/\ \A p \in DOMAIN fs :
                p \notin DOMAIN fs'
                => /\ MatchesPattern(p)
                   /\ f.MaxDays > 0
                   /\ files[fs[p]].mtime < now - f.MaxDays
          /\ sweeps' > sweeps
             => /\ sweeps' = sweeps + 1
                /\ Len(rotlog') = Len(rotlog) + 1
                /\ rotlog'[Len(rotlog')].ok]_vars

\* C15 witness: with maxdays = 1 the sweep has removed app-old.log, last
\* modified two days before, while app.txt, other.log and the archive just
\* made are still there, and the write that caused the rotation took place
\* before the sweep ran.
C15_Witness ==
    /\ f.MaxDays = 1
    /\ \E d \in deleted : d.path = OtherFiles[1].path /\ d.mtime = d.at - 2
    /\ OtherFiles[2].path \in DOMAIN fs
    /\ OtherFiles[3].path \in DOMAIN fs
    /\ \E r \in Rotations :
          /\ rotlog[r].name \in DOMAIN fs
          /\ rotlog[r].id \in Written
    /\ sweeps = 0 /\ walks = 1
    /\ \E i \in Written : wlog[i].rot = "ok" /\ files[wlog[i].file].mtime = now

\* C18: first fit, and failure without damage. With maxsize > 0 a
\* rotation renames the live file to the numbered name with the smallest
\* number in 1..MaxRotateNum that does not exist; no existing path is
\* replaced or lost by a rotation. When every numbered name of the date
\* exists (with maxsize = 0: when the dated name exists) doRotate fails and
\* leaves the tree, the open file, the byte counter and the opened day as
\* they were, and the message is then written to the file that was open.
C18_FirstFitArchive ==
    /\ [][Len(rotlog') = Len(rotlog) + 1 =>
            LET r == rotlog'[Len(rotlog')]
                logTime == writers["t1"].when
                exists(k) == NumberedName(logTime, k) \in DOMAIN fs
            IN  /\ (r.ok /\ f.MaxSize > 0)
                   => \E n \in 1..MaxRotateNum :
                         /\ r.name = NumberedName(logTime, n)
                         /\ ~exists(n)
                         /\ \A k \in 1..(n - 1) : exists(k)
                /\ (r.ok /\ f.MaxSize = 0) => r.name = DatedName(logTime)
                /\ r.ok => /\ r.name \notin DOMAIN fs
                           /\ fs'[r.name] = fs[f.Filename]
                           /\ \A p \in DOMAIN fs \ {f.Filename} :
                                 p \in DOMAIN fs' /\ fs'[p] = fs[p]
                /\ (\/ f.MaxSize > 0 /\ \A k \in 1..MaxRotateNum : exists(k)
                    \/ f.MaxSize = 0 /\ DatedName(logTime) \in DOMAIN fs)
                   => /\ ~r.ok
                      /\ UNCHANGED <<fs, files, fileWriter, maxSizeCurSize,
                                     dailyOpenDate, sweeps>>]_vars
    /\ [](\A i \in Written :
            wlog[i].rot = "err"
            => /\ wlog[i].file = wlog[i].file0
               /\ wlog[i].cur = wlog[i].cur0 + wlog[i].len
               /\ files[wlog[i].file].content[wlog[i].pos] = i)

\* C18 witness: number 001 existed, a rotation took 002, the next found
\* no free number, and its message was written to the file that was open.
C18_Witness ==
    /\ f.MaxSize > 0
    /\ \E a, b \in DOMAIN rotlog :
          /\ a < b
          /\ rotlog[a].ok /\ rotlog[a].name = NumberedName(1, 2)
          /\ ~rotlog[b].ok /\ rotlog[b].free = {}
          /\ rotlog[b].id \in Written
          /\ wlog[rotlog[b].id].file = rotlog[b].from

\* C17: with concurrent WriteMsg callers, the live file is renamed only
\* when the test of the byte counter and the opened day holds at that
\* moment (one crossing, one rotation), and the message that caused a
\* rotation is the first content of the new live file (no other writer
\* gets in between).
C17_RotateAndWriteUnderOneLock ==
    /\ \A r \in Rotations : rotlog[r].needed
    /\ \A i \in Written : wlog[i].rot = "ok" => wlog[i].pos = 1

\* call i rotated the live file because of its day, not because of the size
DayRotated(i) ==
    /\ wlog[i].rot = "ok"
    /\ DayChanged(wlog[i])
    /\ ~(f.MaxSize > 0 /\ wlog[i].cur0 >= f.MaxSize)

\* C20: after a rotation caused by the day X of a message the recorded
\* opened day is X, and the next message stamped with day X is written
\* without a rotation attempt (unless the size asks for one).
C20_OneRotationPerDay ==
    /\ (writers["t1"].pc = "write" /\ DayRotated(writers["t1"].id))
       => dailyOpenDate = Day(writers["t1"].when)
    /\ \A i, j \in DOMAIN wlog :
          (/\ j = i + 1
           /\ DayRotated(i)
           /\ wlog[j].day = wlog[i].day
           /\ wlog[j].level <= f.Level
           /\ ~(f.MaxSize > 0 /\ wlog[j].cur0 >= f.MaxSize))
          => wlog[j].rot = "none"

====
